---- MODULE Spec2Model ----
(***************************************************************************)
(* Model of the ABC notation editor:                                       *)
(*   - the stream tokenizer of src/app/utils/abc-language.ts, driven line  *)
(*     by line as StreamLanguage drives a stream parser;                   *)
(*   - the content/selection synchronizer of                               *)
(*     src/app/components/AbcEditor.tsx (a React component around an       *)
(*     EditorView), together with a host that owns the props.              *)
(* The two halves share no state.  TokSpec runs the tokenizer and leaves   *)
(* the editor variables alone; Spec runs the editor and leaves the         *)
(* tokenizer variables alone.                                              *)
(***************************************************************************)
EXTENDS Integers, Sequences, FiniteSets, TLC

VARIABLES
    \* ---- tokenizer (abc-language.ts) ----
    text,        \* the document being highlighted, a sequence of characters
    ln,          \* 1-based index of the line the stream is on
    pos,         \* stream.pos: 0-based offset inside the current line
    inHeader,    \* state.inHeader
    toks,        \* one record per call of token(): line, start, end, style, rule
    \* ---- editor (AbcEditor.tsx) ----
    phase,       \* "off", "mount" (first commit), "live", "unmounted"
    value,       \* prop value, as of the last render
    disabled,    \* prop disabled, as of the last render
    selectedRange,       \* prop selectedRange: <<>> for null, else <<from, to>>
    onSelectionChange,   \* whether the host passed the optional callback at the
                         \* first render (the listener keeps that closure)
    view,        \* the EditorView: "none", "live" or "destroyed"
    viewRef,     \* viewRef.current is not null
    doc,         \* view.state.doc
    sel,         \* view.state.selection.main, <<from, to>>
    editable,    \* the EditorView.editable facet
    isInternalChangeRef, \* isInternalChangeRef.current
    timers,      \* pending setTimeout focus callbacks (MaxTimers: that many or more)
    effects,     \* the effects of the current commit that have not run yet
    pend,        \* what the host stored from notifications, not rendered yet
    notes,       \* the notifications the host got during the last step
    last,        \* the last step: its operation and its outcome
    prior        \* <<currentValue.length, from, to>> of the view just before the
                 \* content replacement of the commit in progress or just
                 \* finished, <<>> when that commit replaced nothing

tokVars == <<text, ln, pos, inHeader, toks>>
edVars == <<phase, value, disabled, selectedRange, onSelectionChange, view, viewRef,
            doc, sel, editable, isInternalChangeRef, timers, effects, pend, notes, last,
            prior>>
vars == <<text, ln, pos, inHeader, toks, phase, value, disabled, selectedRange,
          onSelectionChange, view, viewRef, doc, sel, editable, isInternalChangeRef,
          timers, effects, pend, notes, last, prior>>

(***************************************************************************)
(* Bounds                                                                  *)
(***************************************************************************)
MaxLen == 3          \* longest free part of a tokenizer input
MaxDocLen == 1       \* longest editor document
MaxTimers == 1       \* pending focus callbacks are counted up to this many

(***************************************************************************)
(* Characters                                                              *)
(***************************************************************************)
NL == "\n"
DQ == "\""
NoChar == ""         \* what peek()/next() give at the end of the line

Upper == {"A","B","C","D","E","F","G","H","I","J","K","L","M",
          "N","O","P","Q","R","S","T","U","V","W","X","Y","Z"}
Lower == {"a","b","c","d","e","f","g","h","i","j","k","l","m",
          "n","o","p","q","r","s","t","u","v","w","x","y","z"}
Letters == Upper \cup Lower                         \* [A-Za-z]
Digits == {"0","1","2","3","4","5","6","7","8","9"}  \* \d
Spaces == {" ", "\t"}                               \* [\s\u00a0] inside a line
BarChars == {"|", ":", "[", "]"}                    \* [\|:\[\]]
NoteLetters == {"A","B","C","D","E","F","G","a","b","c","d","e","f","g"}
OctaveMarks == {"'", ","}                           \* [',]
AccidentalChars == {"^", "=", "_"}                  \* [\^=_]
RestChars == {"z", "x", "Z"}                        \* [zxZ]
SlurChars == {"(", ")", "-"}                        \* [\(\)-]

\* The characters inputs are drawn from: at least one of every class the
\* tokenizer tells apart, and the line break.
Alphabet == {" ", NL, "K", "A", "z", "T", ":", "%", "|", "'", "^",
             "/", "2", DQ, "("}

(***************************************************************************)
(* StringStream, as token() uses it.  s is the line, p the 0-based pos.    *)
(***************************************************************************)
charAt(s, p) == IF p < Len(s) THEN s[p + 1] ELSE NoChar

\* stream.peek()
peek(s, p) == charAt(s, p)

\* sol() that holds at every position (mutation of sol: the header branch
\* not tied to the start of the line)
solAnywhere(p) == TRUE

\* stream.sol()
sol(p) == p = 0

\* next() that does not consume (mutation of next: the call left out)
nextStuck(s, p) == p

\* next() that moves even at the end of the line (mutation of next)
nextUnchecked(s, p) == p + 1

\* stream.next(): the position after it (it does not move at the end)
next(s, p) == IF p < Len(s) THEN p + 1 ELSE p

\* skipToEnd() that takes the one character (mutation of skipToEnd)
skipToEndOne(s, p) == p + 1

\* stream.skipToEnd()
skipToEnd(s, p) == Len(s)

RECURSIVE eatSpace(_, _)
\* stream.eatSpace(): the position after the run of whitespace at p
eatSpace(s, p) == IF charAt(s, p) \in Spaces THEN eatSpace(s, p + 1) ELSE p

\* eatWhile with a test that every character passes (mutation of
\* eatWhileNotQuote: the closing quote is not looked for)
eatWhileAny(s, p) == Len(s)

RECURSIVE eatWhileNotQuote(_, _)
\* stream.eatWhile((c) => c !== '"')
eatWhileNotQuote(s, p) ==
    IF p < Len(s) /\ charAt(s, p) # DQ THEN eatWhileNotQuote(s, p + 1) ELSE p

RECURSIVE eatSet(_, _, _)
\* the position after the longest run of characters of set cs at p
eatSet(s, p, cs) == IF charAt(s, p) \in cs THEN eatSet(s, p + 1, cs) ELSE p

(***************************************************************************)
(* stream.match(re) for each pattern of token(): the length of the match  *)
(* at p, NoMatch when match() returns null.                                *)
(* match() rejects a match that does not start at the current position,    *)
(* so the unanchored patterns behave as anchored ones.                     *)
(***************************************************************************)
NoMatch == -1

\* /^[A-Za-z]:/
matchHeaderField(s, p) ==
    IF charAt(s, p) \in Letters /\ charAt(s, p + 1) = ":" THEN 2 ELSE NoMatch

\* /^K:/
matchKField(s, p) ==
    IF charAt(s, p) = "K" /\ charAt(s, p + 1) = ":" THEN 2 ELSE NoMatch

\* /[\|:\[\]]/
matchBar(s, p) == IF charAt(s, p) \in BarChars THEN 1 ELSE NoMatch

\* /[A-Ga-g][',]*/
matchNote(s, p) ==
    IF charAt(s, p) \in NoteLetters THEN eatSet(s, p + 1, OctaveMarks) - p ELSE NoMatch

\* /[\^=_]/ (mutation of matchAccidental: the {1,2} left out)
matchAccidentalOne(s, p) == IF charAt(s, p) \in AccidentalChars THEN 1 ELSE NoMatch

\* /[\^=_]{1,2}/
matchAccidental(s, p) ==
    IF charAt(s, p) \notin AccidentalChars THEN NoMatch
    ELSE IF charAt(s, p + 1) \in AccidentalChars THEN 2 ELSE 1

\* /\/?\d+/
matchDuration(s, p) ==
    LET q == IF charAt(s, p) = "/" THEN p + 1 ELSE p
    IN  IF charAt(s, q) \in Digits THEN eatSet(s, q, Digits) - p ELSE NoMatch

\* /[zxZ]/
matchRest(s, p) == IF charAt(s, p) \in RestChars THEN 1 ELSE NoMatch

\* /[\(\)-]/
matchSlur(s, p) == IF charAt(s, p) \in SlurChars THEN 1 ELSE NoMatch

(***************************************************************************)
(* token(stream, state): one call on line s at position p.  The result is  *)
(* the new position, the new state.inHeader, the style returned ("null"    *)
(* for null) and the number of the return statement taken, 1..12 in source *)
(* order.                                                                  *)
(***************************************************************************)
Result(p, h, style, rule) == [pos |-> p, inHeader |-> h, style |-> style, rule |-> rule]

token(s, p, h) ==
    LET char == peek(s, p) IN
    IF eatSpace(s, p) > p THEN Result(eatSpace(s, p), h, "null", 1)
    ELSE IF h /\ sol(p) /\ matchHeaderField(s, p) # NoMatch
        THEN Result(p + matchHeaderField(s, p), h, "keyword", 2)
    ELSE IF matchKField(s, p) # NoMatch
        THEN Result(p + matchKField(s, p), FALSE, "keyword", 3)
    ELSE IF char = "%" THEN Result(skipToEnd(s, p), h, "comment", 4)
    ELSE IF matchBar(s, p) # NoMatch THEN Result(p + matchBar(s, p), h, "operator", 5)
    ELSE IF matchNote(s, p) # NoMatch THEN Result(p + matchNote(s, p), h, "variableName", 6)
    ELSE IF matchAccidental(s, p) # NoMatch
        THEN Result(p + matchAccidental(s, p), h, "modifier", 7)
    ELSE IF matchDuration(s, p) # NoMatch
        THEN Result(p + matchDuration(s, p), h, "number", 8)
    ELSE IF matchRest(s, p) # NoMatch THEN Result(p + matchRest(s, p), h, "atom", 9)
    ELSE IF char = DQ
        THEN Result(next(s, eatWhileNotQuote(s, next(s, p))), h, "string", 10)
    ELSE IF matchSlur(s, p) # NoMatch THEN Result(p + matchSlur(s, p), h, "punctuation", 11)
    ELSE Result(next(s, p), h, "null", 12)

\* abcHighlightStyle: the highlight class each returned style is shown with
TagOf(style) ==
    CASE style = "keyword" -> "Header"
      [] style = "variableName" -> "Note"
      [] style = "number" -> "Duration"
      [] style = "operator" -> "Bar"
      [] style = "comment" -> "Comment"
      [] style = "string" -> "Chord"
      [] style = "modifier" -> "Accidental"
      [] style = "atom" -> "Rest"
      [] style = "punctuation" -> "Slur"

\* startState()
startState == [inHeader |-> TRUE]

(***************************************************************************)
(* The line driver: StreamLanguage hands token() one line at a time, calls *)
(* it until the line is used up, and carries the state to the next line.   *)
(***************************************************************************)
RECURSIVE SplitLines(_)
\* the lines of a text: the runs between line breaks
SplitLines(t) ==
    IF \A i \in 1..Len(t) : t[i] # NL THEN <<t>>
    ELSE LET k == CHOOSE i \in 1..Len(t) : t[i] = NL /\ \A j \in 1..(i - 1) : t[j] # NL
         IN  <<SubSeq(t, 1, k - 1)>> \o SplitLines(SubSeq(t, k + 1, Len(t)))

Lines == SplitLines(text)
CurLine == Lines[ln]

\* A header-ending prefix: a header field, and a K: field that is not at
\* the start of its line.
Prefixes == {<<>>, <<"T", ":", "K", ":", NL>>}
Bodies == UNION {[1..n -> Alphabet] : n \in 0..MaxLen}

NoPend == [value |-> <<>>, sel |-> <<>>]

\* the editor half, not running
EdOff ==
    /\ phase = "off"
    /\ value = <<>>
    /\ disabled = FALSE
    /\ selectedRange = <<>>
    /\ onSelectionChange = FALSE
    /\ view = "none"
    /\ viewRef = FALSE
    /\ doc = <<>>
    /\ sel = <<0, 0>>
    /\ editable = TRUE
    /\ isInternalChangeRef = FALSE
    /\ timers = 0
    /\ effects = <<>>
    /\ pend = NoPend
    /\ notes = <<>>
    /\ last = [op |-> "none", outcome |-> "none"]
    /\ prior = <<>>

TokInit ==
    /\ text \in {p \o b : p \in Prefixes, b \in Bodies}
    /\ ln = 1
    /\ pos = 0
    /\ inHeader = startState.inHeader
    /\ toks = <<>>
    /\ EdOff

\* one call of token() on a line that is not used up
TokenStep ==
    /\ pos < Len(CurLine)
    /\ LET r == token(CurLine, pos, inHeader)
       IN  /\ pos' = r.pos
           /\ inHeader' = r.inHeader
           /\ toks' = Append(toks, [line |-> ln, start |-> pos, end |-> r.pos,
                                     style |-> r.style, rule |-> r.rule,
                                     before |-> inHeader, after |-> r.inHeader])
    /\ UNCHANGED <<text, ln>>
    /\ UNCHANGED edVars

\* the line driver that starts every line with a new state (mutation of
\* NextLine: startState() called per line)
NextLineFreshState ==
    /\ pos = Len(CurLine)
    /\ ln < Len(Lines)
    /\ ln' = ln + 1
    /\ pos' = 0
    /\ inHeader' = startState.inHeader
    /\ UNCHANGED <<text, toks>>
    /\ UNCHANGED edVars

\* the line is used up (or blank): go on with the next one, state kept
NextLine ==
    /\ pos = Len(CurLine)
    /\ ln < Len(Lines)
    /\ ln' = ln + 1
    /\ pos' = 0
    /\ UNCHANGED <<text, inHeader, toks>>
    /\ UNCHANGED edVars

TokNext == TokenStep \/ NextLine

TokSpec == TokInit /\ [][TokNext]_vars

TokDone == ln = Len(Lines) /\ pos = Len(CurLine)

(***************************************************************************)
(* The editor component, AbcEditor.tsx                                     *)
(***************************************************************************)
DocChars == {"a", "b"}

\* the documents: every length up to MaxDocLen, and two different texts of
\* every length but 0 (they differ in the first character)
Docs ==
    {d \in UNION {[1..n -> DocChars] : n \in 0..MaxDocLen} :
        \A i \in 2..Len(d) : d[i] = "a"}

\* the selections a document of length n can have
SelsOf(n) == {<<f, t>> : f \in 0..n, t \in 0..n} \cap {s \in Int \X Int : s[1] <= s[2]}

\* the ranges a host may ask for: every range that is valid for the longest
\* document (too long for a shorter one), these inverted, one that starts
\* below 0 and two that end beyond every document
Requests ==
    SelsOf(MaxDocLen)
    \cup {<<s[2], s[1]>> : s \in {x \in SelsOf(MaxDocLen) : x[1] < x[2]}}
    \cup {<<0 - 1, 0>>, <<0, MaxDocLen + 1>>, <<MaxDocLen + 1, MaxDocLen + 1>>}

\* prop selectedRange: null or a range object
Ranges == {<<>>} \cup Requests

\* what a host does with a notification: <<stores the text of onChange into
\* value, stores the offsets of onSelectionChange into a new selectedRange>>
\* and renders again.  A host that only listens renders when it chooses to
\* (HostUpdate); a host that echoes renders what it stored (Render).
Listens == <<FALSE, FALSE>>
Echoes == <<TRUE, TRUE>>

Min(a, b) == IF a < b THEN a ELSE b

\* the update listener that notifies of every selection it sees (mutation of
\* updateListener: update.selectionSet not looked at)
updateListenerAnySelection(u) ==
    (IF u.docChanged THEN <<[type |-> "change", text |-> u.doc]>> ELSE <<>>)
    \o (IF onSelectionChange
            THEN <<[type |-> "selection", from |-> u.sel[1], to |-> u.sel[2]]>>
            ELSE <<>>)

\* the update listener that reports the selection after every change of the
\* document too (mutation of updateListener: docChanged || selectionSet)
updateListenerDocOrSelection(u) ==
    (IF u.docChanged THEN <<[type |-> "change", text |-> u.doc]>> ELSE <<>>)
    \o (IF (u.docChanged \/ u.selectionSet) /\ onSelectionChange
            THEN <<[type |-> "selection", from |-> u.sel[1], to |-> u.sel[2]]>>
            ELSE <<>>)

\* the update listener that reports the selection only when the document
\* did not change (mutation of updateListener: "else if" for the second "if")
updateListenerElseIf(u) ==
    IF u.docChanged THEN <<[type |-> "change", text |-> u.doc]>>
    ELSE IF u.selectionSet /\ onSelectionChange
        THEN <<[type |-> "selection", from |-> u.sel[1], to |-> u.sel[2]]>>
    ELSE <<>>

\* EditorView.updateListener: the calls of onChange and onSelectionChange
\* one update leads to, in order
updateListener(u) ==
    (IF u.docChanged THEN <<[type |-> "change", text |-> u.doc]>> ELSE <<>>)
    \o (IF u.selectionSet /\ onSelectionChange
            THEN <<[type |-> "selection", from |-> u.sel[1], to |-> u.sel[2]]>>
            ELSE <<>>)

\* the host's store after notifications n under policy pol
HostStore(n, pol) ==
    LET ch == SelectSeq(n, LAMBDA x : x.type = "change")
        se == SelectSeq(n, LAMBDA x : x.type = "selection")
    IN  [value |-> IF pol[1] /\ ch # <<>> THEN <<ch[Len(ch)].text>> ELSE pend.value,
         sel |-> IF pol[2] /\ se # <<>>
                    THEN <<se[Len(se)].from, se[Len(se)].to>> ELSE pend.sel]

\* the listener runs on update u and the host reacts
Notify(u, pol) ==
    /\ notes' = updateListener(u)
    /\ pend' = HostStore(updateListener(u), pol)

\* the first commit ends with its last effect
PhaseAfterEffect ==
    IF phase = "mount" /\ Tail(effects) = <<>> THEN "live" ELSE phase

Quiescent == effects = <<>> /\ pend = NoPend

\* the comparison that always asks for a replacement (mutation of
\* needsReplace)
needsReplaceAlways(currentValue, v) == TRUE

\* currentValue !== value
needsReplace(currentValue, v) == currentValue # v

\* the validation without the upper bounds (mutation of validRange)
validRangeNoUpper(from, to, docLength) == from >= 0 /\ to >= 0 /\ from <= to

\* from >= 0 && to >= 0 && from <= docLength && to <= docLength && from <= to
validRange(from, to, docLength) ==
    from >= 0 /\ to >= 0 /\ from <= docLength /\ to <= docLength /\ from <= to

\* the change that ends at the new length (mutation of changes)
changesToNewLength(currentValue, v) == [from |-> 0, to |-> Len(v), insert |-> v]

\* changes: { from: 0, to: currentValue.length, insert: value }
changes(currentValue, v) == [from |-> 0, to |-> Len(currentValue), insert |-> v]

\* the document a transaction with the change ch makes of d; a change that
\* reaches beyond d is refused (RangeError) and leaves d as it is
applyChanges(d, ch) ==
    IF 0 <= ch.from /\ ch.from <= ch.to /\ ch.to <= Len(d)
        THEN SubSeq(d, 1, ch.from) \o ch.insert \o SubSeq(d, ch.to + 1, Len(d))
        ELSE d

\* The state after the first render, before its effects: the props are the
\* host's choice.
Init ==
    /\ phase = "mount"
    /\ value \in Docs
    /\ disabled \in BOOLEAN
    /\ selectedRange \in Ranges
    /\ onSelectionChange \in BOOLEAN
    /\ view = "none"
    /\ viewRef = FALSE
    /\ doc = <<>>
    /\ sel = <<0, 0>>
    /\ editable = TRUE
    /\ isInternalChangeRef = FALSE
    /\ timers = 0
    /\ effects = <<"create", "value", "disabled", "selection">>
    /\ pend = NoPend
    /\ notes = <<>>
    /\ last = [op |-> "none", outcome |-> "none"]
    /\ prior = <<>>
    /\ text = <<>> /\ ln = 1 /\ pos = 0 /\ inHeader = TRUE /\ toks = <<>>

\* useEffect(..., []): the view is created on the current value
EffectCreate ==
    /\ effects # <<>> /\ Head(effects) = "create"
    /\ effects' = Tail(effects)
    /\ phase' = PhaseAfterEffect
    /\ view' = "live"
    /\ viewRef' = TRUE
    /\ doc' = value
    /\ sel' = <<0, 0>>
    /\ editable' = ~disabled
    /\ notes' = <<>>
    /\ last' = [op |-> "create", outcome |-> "created"]
    /\ prior' = <<>>
    /\ UNCHANGED <<value, disabled, selectedRange, onSelectionChange,
                   isInternalChangeRef, timers, pend>>
    /\ UNCHANGED tokVars

\* useEffect(..., [value]): the whole document is replaced when it differs.
\* The transaction sets no selection; the view maps the old one to some
\* range of the new document.
EffectValue(pol) ==
    /\ effects # <<>> /\ Head(effects) = "value"
    /\ effects' = Tail(effects)
    /\ phase' = PhaseAfterEffect
    /\ IF viewRef /\ needsReplace(doc, value)
          THEN LET newDoc == applyChanges(doc, changes(doc, value))
               IN  \E m \in SelsOf(Len(newDoc)) :
                      /\ doc' = newDoc
                      /\ sel' = m
                      /\ Notify([docChanged |-> TRUE, selectionSet |-> FALSE,
                                 doc |-> newDoc, sel |-> m], pol)
                      /\ last' = [op |-> "effectValue", outcome |-> "replaced"]
                      /\ prior' = <<Len(doc), sel[1], sel[2]>>
          ELSE /\ UNCHANGED <<doc, sel, pend>>
               /\ prior' = <<>>
               /\ notes' = <<>>
               /\ last' = [op |-> "effectValue",
                           outcome |-> IF viewRef THEN "same" ELSE "skipped"]
    /\ UNCHANGED <<value, disabled, selectedRange, onSelectionChange, view, viewRef,
                   editable, isInternalChangeRef, timers>>
    /\ UNCHANGED tokVars

\* useEffect(..., [disabled]): the editable compartment is reconfigured
EffectDisabled(pol) ==
    /\ effects # <<>> /\ Head(effects) = "disabled"
    /\ effects' = Tail(effects)
    /\ phase' = PhaseAfterEffect
    /\ IF viewRef
          THEN /\ editable' = ~disabled
               /\ Notify([docChanged |-> FALSE, selectionSet |-> FALSE,
                          doc |-> doc, sel |-> sel], pol)
               /\ last' = [op |-> "effectDisabled", outcome |-> "reconfigured"]
          ELSE /\ UNCHANGED <<editable, pend>>
               /\ notes' = <<>>
               /\ last' = [op |-> "effectDisabled", outcome |-> "skipped"]
    /\ UNCHANGED <<value, disabled, selectedRange, onSelectionChange, view, viewRef,
                   doc, sel, isInternalChangeRef, timers, prior>>
    /\ UNCHANGED tokVars

\* the flag raised by a request that was applied and lowered by the others
\* (mutation of resetInternalChange: the flag set around the dispatch and
\* not lowered after it)
raiseInternalChange(applied) == applied

\* isInternalChangeRef.current = false, at the end of the selection effect
\* whatever it did
resetInternalChange(applied) == FALSE

\* useEffect(..., [selectedRange]): a valid range is dispatched as the
\* selection and a focus is scheduled; an invalid one is warned about
EffectSelectedRange(pol) ==
    /\ effects # <<>> /\ Head(effects) = "selection"
    /\ effects' = Tail(effects)
    /\ phase' = PhaseAfterEffect
    /\ IF viewRef /\ selectedRange # <<>> /\ ~isInternalChangeRef
          THEN LET from == selectedRange[1]
                   to == selectedRange[2]
                   docLength == Len(doc)
               IN  IF validRange(from, to, docLength)
                      THEN /\ sel' = <<from, to>>
                           /\ Notify([docChanged |-> FALSE, selectionSet |-> TRUE,
                                      doc |-> doc, sel |-> <<from, to>>], pol)
                           /\ timers' = Min(timers + 1, MaxTimers)
                           /\ last' = [op |-> "effectSelection", outcome |-> "applied"]
                      ELSE /\ UNCHANGED <<sel, pend, timers>>
                           /\ notes' = <<>>
                           /\ last' = [op |-> "effectSelection", outcome |-> "rejected"]
          ELSE /\ UNCHANGED <<sel, pend, timers>>
               /\ notes' = <<>>
               /\ last' = [op |-> "effectSelection", outcome |-> "skipped"]
    /\ isInternalChangeRef' = resetInternalChange(last'.outcome = "applied")
    /\ UNCHANGED <<value, disabled, selectedRange, onSelectionChange, view, viewRef,
                   doc, editable, prior>>
    /\ UNCHANGED tokVars

\* the effects of a commit with the selection effect first (mutation of
\* EffectsFor: the two useEffect calls in the other order)
EffectsForSelectionFirst(v, d, r, fresh) ==
    (IF r # selectedRange \/ (fresh /\ r # <<>>) THEN <<"selection">> ELSE <<>>)
    \o (IF v # value THEN <<"value">> ELSE <<>>)
    \o (IF d # disabled THEN <<"disabled">> ELSE <<>>)

\* the effects a commit runs: those whose dependency changed, in source
\* order.  Strings and booleans are compared by value, selectedRange by
\* identity: fresh says that r is an object the host has not passed before.
EffectsFor(v, d, r, fresh) ==
    (IF v # value THEN <<"value">> ELSE <<>>)
    \o (IF d # disabled THEN <<"disabled">> ELSE <<>>)
    \o (IF r # selectedRange \/ (fresh /\ r # <<>>) THEN <<"selection">> ELSE <<>>)

\* the host renders the component with new props
HostUpdate(v, d, r, fresh) ==
    /\ phase = "live" /\ Quiescent
    /\ EffectsFor(v, d, r, fresh) # <<>>
    /\ value' = v
    /\ disabled' = d
    /\ selectedRange' = r
    /\ effects' = EffectsFor(v, d, r, fresh)
    /\ notes' = <<>>
    /\ last' = [op |-> "hostUpdate", outcome |-> "rendered"]
    /\ prior' = <<>>
    /\ UNCHANGED <<phase, onSelectionChange, view, viewRef, doc, sel, editable,
                   isInternalChangeRef, timers, pend>>
    /\ UNCHANGED tokVars

\* the render that follows the host storing what it was notified of
Render ==
    /\ phase = "live" /\ effects = <<>> /\ pend # NoPend
    /\ LET v == IF pend.value # <<>> THEN pend.value[1] ELSE value
           r == IF pend.sel # <<>> THEN pend.sel ELSE selectedRange
       IN  /\ value' = v
           /\ selectedRange' = r
           /\ effects' = EffectsFor(v, disabled, r, pend.sel # <<>>)
    /\ pend' = NoPend
    /\ notes' = <<>>
    /\ last' = [op |-> "render", outcome |-> "rendered"]
    /\ prior' = <<>>
    /\ UNCHANGED <<phase, disabled, onSelectionChange, view, viewRef, doc, sel,
                   editable, isInternalChangeRef, timers>>
    /\ UNCHANGED tokVars

\* the user moves the cursor or selects in the widget
UserSelect(f, t, pol) ==
    /\ phase = "live" /\ Quiescent
    /\ sel' = <<f, t>>
    /\ Notify([docChanged |-> FALSE, selectionSet |-> TRUE,
               doc |-> doc, sel |-> <<f, t>>], pol)
    /\ last' = [op |-> "userSelect", outcome |-> "dispatched"]
    /\ prior' = <<>>
    /\ UNCHANGED <<phase, value, disabled, selectedRange, onSelectionChange, view,
                   viewRef, doc, editable, isInternalChangeRef, timers, effects>>
    /\ UNCHANGED tokVars

\* the user edits the document in the widget, which sets the cursor too
UserEdit(d, f, t, pol) ==
    /\ phase = "live" /\ Quiescent
    /\ editable
    /\ d # doc
    /\ doc' = d
    /\ sel' = <<f, t>>
    /\ Notify([docChanged |-> TRUE, selectionSet |-> TRUE,
               doc |-> d, sel |-> <<f, t>>], pol)
    /\ last' = [op |-> "userEdit", outcome |-> "dispatched"]
    /\ prior' = <<>>
    /\ UNCHANGED <<phase, value, disabled, selectedRange, onSelectionChange, view,
                   viewRef, editable, isInternalChangeRef, timers, effects>>
    /\ UNCHANGED tokVars

\* a focus callback of setTimeout runs: view.focus() on the view it holds
TimerFire ==
    /\ phase \in {"live", "unmounted"} /\ Quiescent
    /\ timers > 0
    /\ timers' \in (IF timers = MaxTimers THEN {timers, timers - 1} ELSE {timers - 1})
    /\ notes' = <<>>
    /\ last' = [op |-> "timer",
                outcome |-> IF view = "destroyed" THEN "focusDestroyed" ELSE "focus"]
    /\ prior' = <<>>
    /\ UNCHANGED <<phase, value, disabled, selectedRange, onSelectionChange, view,
                   viewRef, doc, sel, editable, isInternalChangeRef, effects, pend>>
    /\ UNCHANGED tokVars

\* the cleanup of the first effect: view.destroy(); viewRef.current = null
Unmount ==
    /\ phase = "live" /\ Quiescent
    /\ phase' = "unmounted"
    /\ view' = "destroyed"
    /\ viewRef' = FALSE
    /\ notes' = <<>>
    /\ last' = [op |-> "unmount", outcome |-> "destroyed"]
    /\ prior' = <<>>
    /\ UNCHANGED <<value, disabled, selectedRange, onSelectionChange, doc, sel,
                   editable, isInternalChangeRef, timers, effects, pend>>
    /\ UNCHANGED tokVars

\* a host that listens to the notifications and renders when it chooses to
Next ==
    \/ EffectCreate
    \/ EffectValue(Listens)
    \/ EffectDisabled(Listens)
    \/ EffectSelectedRange(Listens)
    \/ \E v \in Docs, r \in Ranges, fresh \in BOOLEAN :
          HostUpdate(v, disabled, r, fresh)
    \/ HostUpdate(value, ~disabled, selectedRange, FALSE)
    \/ \E s \in SelsOf(Len(doc)) : UserSelect(s[1], s[2], Listens)
    \/ \E d \in Docs : \E s \in SelsOf(Len(d)) : UserEdit(d, s[1], s[2], Listens)
    \/ TimerFire
    \/ Unmount

Spec == Init /\ [][Next]_vars

\* a host that stores every onChange(text) into value and every
\* onSelectionChange(from, to) into a new selectedRange object
EchoNext ==
    \/ EffectCreate
    \/ EffectValue(Echoes)
    \/ EffectDisabled(Echoes)
    \/ EffectSelectedRange(Echoes)
    \/ Render
    \/ \E v \in Docs, r \in Ranges, fresh \in BOOLEAN :
          HostUpdate(v, disabled, r, fresh)
    \/ HostUpdate(value, ~disabled, selectedRange, FALSE)
    \/ \E s \in SelsOf(Len(doc)) : UserSelect(s[1], s[2], Echoes)
    \/ \E d \in Docs : \E s \in SelsOf(Len(d)) : UserEdit(d, s[1], s[2], Echoes)
    \/ TimerFire
    \/ Unmount

\* what React does by itself: a render that was asked for happens, and the
\* effects of a commit all run
React ==
    \/ EffectCreate
    \/ EffectValue(Echoes)
    \/ EffectDisabled(Echoes)
    \/ EffectSelectedRange(Echoes)
    \/ Render

EchoSpec == Init /\ [][EchoNext]_vars /\ WF_vars(React)

(***************************************************************************)
(* Tokenizer properties                                                    *)
(***************************************************************************)
\* the characters a step consumed
SpanText(k) == SubSeq(Lines[k.line], k.start + 1, k.end)

RECURSIVE Flatten(_)
\* the concatenation of a sequence of sequences
Flatten(ss) == IF ss = <<>> THEN <<>> ELSE Head(ss) \o Flatten(Tail(ss))

RECURSIVE JoinLines(_)
\* lines put back together with a line break between them
JoinLines(ls) ==
    IF Len(ls) = 1 THEN ls[1] ELSE ls[1] \o <<NL>> \o JoinLines(Tail(ls))

SpansOf(ks) == [i \in 1..Len(ks) |-> SpanText(ks[i])]

\* C3 (as claimed): every step that consumes "K:" and tags it Header
\* (style "keyword") leaves inHeader false, whatever the position in the line
\* and whatever inHeader was before.
C3_KFieldEndsHeader ==
    \A i \in 1..Len(toks) :
        (SpanText(toks[i]) = <<"K", ":">> /\ toks[i].style = "keyword")
            => toks[i].after = FALSE

\* the characters consumed so far: the lines done and the part of this one
RECURSIVE LenSum(_, _)
LenSum(ls, n) == IF n = 0 THEN 0 ELSE Len(ls[n]) + LenSum(ls, n - 1)
Consumed == LenSum(Lines, ln - 1) + pos

\* C7: every step on a line that is not used up consumes at least one
\* character, so the number of steps taken never exceeds the number of
\* characters consumed (and so never the length of the text).
C7_EveryStepConsumes ==
    /\ \A i \in 1..Len(toks) : toks[i].end > toks[i].start
    /\ Len(toks) <= Consumed
    /\ Consumed <= Len(text)

\* C7 witness: a finished scan of two lines that needed one step per
\* character, the bound the claim gives.
C7_Witness ==
    /\ TokDone
    /\ Len(Lines) >= 2
    /\ Len(toks) >= 2
    /\ Len(toks) = Consumed

\* what the highlighter gets: a whitespace skip emits no token
Emitted(k) == k.rule # 1

\* the spans of the steps on line l that satisfy Keep(_), concatenated
LineFrom(l, Keep(_)) ==
    Flatten(SpansOf(SelectSeq(toks, LAMBDA k : k.line = l /\ Keep(k))))

\* C8 (as claimed): the spans of the emitted tokens, concatenated, are the
\* original text (read in the claim's favour: line by line, the line breaks,
\* which no step ever sees, put back between the lines).
C8_EmittedSpansRebuildText ==
    TokDone => JoinLines([l \in 1..Len(Lines) |-> LineFrom(l, Emitted)]) = text

AnyStep(k) == TRUE

\* C8 (amended): the spans of all steps, whitespace skips included, are
\* non-empty, lie inside their line, follow one another without gap or
\* overlap from the start of each line to its end, and once the scan is done
\* their concatenation per line, with the line breaks put back between the
\* lines, is the original text.
C8_StepSpansCoverLines ==
    /\ \A i \in 1..Len(toks) :
          LET k == toks[i] IN
          /\ 0 <= k.start /\ k.start < k.end /\ k.end <= Len(Lines[k.line])
          /\ IF i > 1 /\ toks[i - 1].line = k.line
                THEN k.start = toks[i - 1].end
                ELSE k.start = 0
          /\ (i > 1 /\ toks[i - 1].line # k.line)
                => /\ toks[i - 1].line < k.line
                   /\ toks[i - 1].end = Len(Lines[toks[i - 1].line])
    /\ TokDone => JoinLines([l \in 1..Len(Lines) |-> LineFrom(l, AnyStep)]) = text

\* C8 witness: a finished scan of two lines with a whitespace skip and an
\* unclosed chord among its steps.
C8_Witness ==
    /\ TokDone
    /\ Len(Lines) >= 2
    /\ \E i \in 1..Len(toks) : toks[i].rule = 1
    /\ \E i \in 1..Len(toks) :
          /\ toks[i].rule = 10
          /\ toks[i].line > 1
          /\ Lines[toks[i].line][toks[i].end] # DQ

(***************************************************************************)
(* C9: the rule list of the specification, stated pattern by pattern       *)
(* without reference to token(), to compare token() against.              *)
(***************************************************************************)
\* the length of the longest run of characters of cs at offset p of s
Run(s, p, cs) ==
    CHOOSE n \in 0..(Len(s) - p) :
        /\ \A i \in 1..n : s[p + i] \in cs
        /\ (p + n < Len(s)) => s[p + n + 1] \notin cs

\* what rule n of the list consumes at p, NoMatch when its pattern does not
\* match there
RuleLen(n, s, p, h) ==
    LET c == s[p + 1]
        c2 == IF p + 1 < Len(s) THEN s[p + 2] ELSE NoChar
    IN CASE n = 1 -> IF c \in Spaces THEN Run(s, p, Spaces) ELSE NoMatch
         [] n = 2 -> IF h /\ p = 0 /\ c \in Letters /\ c2 = ":" THEN 2 ELSE NoMatch
         [] n = 3 -> IF c = "K" /\ c2 = ":" THEN 2 ELSE NoMatch
         [] n = 4 -> IF c = "%" THEN Len(s) - p ELSE NoMatch
         [] n = 5 -> IF c \in {"|", ":", "[", "]"} THEN 1 ELSE NoMatch
         [] n = 6 -> IF c \in NoteLetters THEN 1 + Run(s, p + 1, {"'", ","}) ELSE NoMatch
         [] n = 7 -> IF c \notin {"^", "=", "_"} THEN NoMatch
                     ELSE IF c2 \in {"^", "=", "_"} THEN 2 ELSE 1
         [] n = 8 -> LET q == IF c = "/" THEN p + 1 ELSE p
                     IN  IF Run(s, q, Digits) > 0 THEN (q - p) + Run(s, q, Digits)
                         ELSE NoMatch
         [] n = 9 -> IF c \in {"z", "x", "Z"} THEN 1 ELSE NoMatch
         [] n = 10 -> IF c # DQ THEN NoMatch
                      ELSE IF \E j \in (p + 2)..Len(s) : s[j] = DQ
                           THEN (CHOOSE j \in (p + 2)..Len(s) :
                                    s[j] = DQ /\ \A i \in (p + 2)..(j - 1) : s[i] # DQ) - p
                           ELSE Len(s) - p
         [] n = 11 -> IF c \in {"(", ")", "-"} THEN 1 ELSE NoMatch
         [] n = 12 -> 1

\* the tag of rule n; rule 1 emits no token
RuleTag(n) ==
    CASE n = 1 -> "None"       [] n = 2 -> "Header"   [] n = 3 -> "Header"
      [] n = 4 -> "Comment"    [] n = 5 -> "Bar"      [] n = 6 -> "Note"
      [] n = 7 -> "Accidental" [] n = 8 -> "Duration" [] n = 9 -> "Rest"
      [] n = 10 -> "Chord"     [] n = 11 -> "Slur"    [] n = 12 -> "Plain"

\* the first rule, in priority order, whose pattern matches at p
FirstRule(s, p, h) ==
    CHOOSE n \in 1..12 :
        /\ RuleLen(n, s, p, h) # NoMatch
        /\ \A m \in 1..(n - 1) : RuleLen(m, s, p, h) = NoMatch

\* a style returned by token() and a tag of the list name the same class;
\* null is what token() returns both for no token and for plain text
SameTag(style, tag) ==
    IF style = "null" THEN tag \in {"None", "Plain"} ELSE TagOf(style) = tag

\* C9: for every step taken, from whatever position and inHeader, the span
\* length and the tag are those of the first rule of the list that matches
\* at the step's position.
C9_StepIsFirstMatchingRule ==
    \A i \in 1..Len(toks) :
        LET k == toks[i]
            s == Lines[k.line]
            n == FirstRule(s, k.start, k.before)
        IN  /\ k.end - k.start = RuleLen(n, s, k.start, k.before)
            /\ SameTag(k.style, RuleTag(n))

\* C9 witness: a step at which several patterns match and the order
\* decides: a letter-colon at the start of a line in the header whose letter
\* is also a note name (rule 2 before rules 5 and 6).
C9_Witness ==
    \E i \in 1..Len(toks) :
        /\ toks[i].rule = 2
        /\ RuleLen(6, Lines[toks[i].line], toks[i].start, toks[i].before) # NoMatch

(***************************************************************************)
(* Editor properties                                                       *)
(***************************************************************************)
\* the step about to be taken runs the effect named e
Runs(e) == effects # <<>> /\ Head(effects) = e /\ effects' = Tail(effects)

\* the notifications of the last step that are calls of onSelectionChange
SelectionNotes(n) == SelectSeq(n, LAMBDA x : x.type = "selection")

\* 0 <= from <= to <= documentLength
InDocument(r, n) == 0 <= r[1] /\ r[1] <= r[2] /\ r[2] <= n

\* C1 (as claimed): when a valid host selection request has been applied,
\* the selection notification it causes does not reach the host:
\* onSelectionChange is not called during that step.
C1_HostSelectionSuppressed ==
    (last = [op |-> "effectSelection", outcome |-> "applied"])
        => SelectionNotes(notes) = <<>>

\* C2 (as claimed): no focus callback runs on the view after the view has
\* been destroyed.
C2_NoFocusAfterDestroy ==
    ~(last = [op |-> "timer", outcome |-> "focusDestroyed"])

\* C4 (as claimed): with a host that stores every notification into the
\* props, the system always comes to rest again: again and again no effect
\* is waiting to run and no stored notification is waiting to be rendered.
C4_AlwaysQuiescentAgain == []<>Quiescent

\* C5: a selectedRange effect on a range that is not
\* 0 <= from <= to <= documentLength changes neither text nor selection,
\* notifies the host of nothing and schedules no focus.
C5_InvalidRequestRejected ==
    [][(Runs("selection") /\ viewRef /\ selectedRange # <<>>
            /\ ~InDocument(selectedRange, Len(doc)))
        => /\ doc' = doc
           /\ sel' = sel
           /\ notes' = <<>>
           /\ pend' = pend
           /\ timers' = timers
           /\ last' = [op |-> "effectSelection", outcome |-> "rejected"]]_vars

\* C5 witness: after the first commit, an inverted request has been rejected
\* while no focus was pending.
C5_Witness ==
    /\ phase = "live"
    /\ last = [op |-> "effectSelection", outcome |-> "rejected"]
    /\ selectedRange[1] > selectedRange[2]
    /\ timers = 0

\* C6: a value effect on a value equal to the widget's text dispatches
\* nothing: text and selection stay, and the host is notified of nothing.
C6_SameContentIsNoOp ==
    [][(Runs("value") /\ viewRef /\ value = doc)
        => /\ doc' = doc
           /\ sel' = sel
           /\ notes' = <<>>
           /\ pend' = pend
           /\ last' = [op |-> "effectValue", outcome |-> "same"]]_vars

\* C6 witness: after the first commit, the host has passed a value that is
\* the text the user had typed, with the cursor not at 0.
C6_Witness ==
    /\ phase = "live"
    /\ last = [op |-> "effectValue", outcome |-> "same"]
    /\ doc # <<>>
    /\ sel # <<0, 0>>

\* C10: a disabled effect, for either value of disabled, leaves text and
\* selection as they are and notifies the host of nothing.
C10_DisabledKeepsContentAndSelection ==
    [][Runs("disabled")
        => /\ doc' = doc
           /\ sel' = sel
           /\ notes' = <<>>
           /\ pend' = pend]_vars

\* C10 witness: after the first commit, the widget has been disabled while
\* it held a text and a non-empty selection, with the callback passed.
C10_Witness ==
    /\ phase = "live"
    /\ last = [op |-> "effectDisabled", outcome |-> "reconfigured"]
    /\ disabled /\ ~editable
    /\ onSelectionChange
    /\ doc # <<>>
    /\ sel[1] < sel[2]

(***************************************************************************)
(* C11: every selection change the user makes in the widget (moving the    *)
(* cursor, selecting, or editing, which places the cursor) is forwarded to *)
(* the host's onSelectionChange with the widget's new (from, to), once and *)
(* unchanged, also when a host request was applied just before.  Nothing   *)
(* is suppressed.                                                          *)
(***************************************************************************)
UserOps == {"userSelect", "userEdit"}

C11_UserSelectionForwarded ==
    (last.op \in UserOps /\ onSelectionChange)
        => SelectionNotes(notes)
              = <<[type |-> "selection", from |-> sel[1], to |-> sel[2]]>>

\* the user moved the selection away from the range the host asked for
\* while the focus callback of that request was still pending
C11_Witness ==
    /\ last.op = "userSelect"
    /\ onSelectionChange
    /\ timers > 0
    /\ selectedRange # <<>> /\ InDocument(selectedRange, Len(doc))
    /\ sel # selectedRange
    /\ sel[1] < sel[2]

(***************************************************************************)
(* C12: when the content effect has run on a live view, the widget's text  *)
(* is the host's text exactly; when the two differed, the whole buffer was *)
(* replaced by one change from offset 0 to the prior length, whatever the  *)
(* two lengths are.                                                        *)
(***************************************************************************)
C12_ReplacementYieldsNewText ==
    (last.op = "effectValue" /\ viewRef)
        => /\ doc = value
           /\ last.outcome = "replaced" <=> prior # <<>>

\* a text was replaced by a shorter one
C12_Witness ==
    /\ last = [op |-> "effectValue", outcome |-> "replaced"]
    /\ prior # <<>> /\ prior[1] > Len(doc)
    /\ doc = value

(***************************************************************************)
(* C13: a step that starts at a double quote emits one Chord token.  When  *)
(* the rest of the input the scanner holds (its line) has another double   *)
(* quote, the token ends just after the next one; when it has none, the    *)
(* step does not fail and the token runs to the end of that input.         *)
(***************************************************************************)
\* the 0-based offsets of the double quotes of line l after offset p
QuotesAfter(l, p) == {j \in (p + 1)..(Len(l) - 1) : charAt(l, j) = DQ}

SetMin(S) == CHOOSE x \in S : \A y \in S : x <= y

ChordEnd(l, p) ==
    IF QuotesAfter(l, p) = {} THEN Len(l) ELSE SetMin(QuotesAfter(l, p)) + 1

C13_ChordRunsToQuoteOrEnd ==
    \A i \in 1..Len(toks) :
        charAt(Lines[toks[i].line], toks[i].start) = DQ
            => /\ toks[i].style = "string"
               /\ TagOf(toks[i].style) = "Chord"
               /\ toks[i].end = ChordEnd(Lines[toks[i].line], toks[i].start)

\* one scan with a closed chord that something follows and, after it, an
\* unclosed one
C13_Witness ==
    \E i, j \in 1..Len(toks) :
        /\ i < j
        /\ toks[i].style = "string" /\ toks[j].style = "string"
        /\ QuotesAfter(Lines[toks[i].line], toks[i].start) # {}
        /\ toks[i].end < Len(Lines[toks[i].line])
        /\ QuotesAfter(Lines[toks[j].line], toks[j].start) = {}

(***************************************************************************)
(* C14: a step that starts at % emits one Comment token that ends at the   *)
(* end of the current line and leaves inHeader as it was; the step after   *)
(* it starts a later line with that inHeader and follows the rule list     *)
(* like any other step.                                                    *)
(***************************************************************************)
C14_CommentRunsToLineEnd ==
    \A i \in 1..Len(toks) :
        LET k == toks[i]
        IN  charAt(Lines[k.line], k.start) = "%"
                => /\ k.style = "comment"
                   /\ TagOf(k.style) = "Comment"
                   /\ k.end = Len(Lines[k.line])
                   /\ k.after = k.before
                   /\ i < Len(toks)
                        => LET n == toks[i + 1]
                               s == Lines[n.line]
                               r == FirstRule(s, 0, k.before)
                           IN  /\ n.line > k.line
                               /\ n.start = 0
                               /\ n.before = k.before
                               /\ n.end = RuleLen(r, s, 0, k.before)
                               /\ SameTag(n.style, RuleTag(r))

\* a comment, and a note on the line after it
C14_Witness ==
    \E i \in 1..Len(toks) :
        /\ charAt(Lines[toks[i].line], toks[i].start) = "%"
        /\ i < Len(toks)
        /\ toks[i + 1].style = "variableName"

(***************************************************************************)
(* C15: inHeader is true when the scan starts and changes one way only: a  *)
(* step that starts with inHeader false ends with it false, every step     *)
(* starts with the inHeader the step before ended with (line changes       *)
(* included), and the scanner holds the inHeader of its last step.         *)
(***************************************************************************)
C15_InHeaderOnlyFalls ==
    /\ toks = <<>> => inHeader = startState.inHeader
    /\ toks # <<>> => (toks[1].before /\ inHeader = toks[Len(toks)].after)
    /\ \A i \in 1..Len(toks) :
          /\ ~toks[i].before => ~toks[i].after
          /\ i > 1 => toks[i].before = toks[i - 1].after

\* inHeader fell on one line and a later line starts with a letter and a
\* colon, which is scanned with inHeader false
C15_Witness ==
    \E i, j \in 1..Len(toks) :
        /\ toks[i].before /\ ~toks[i].after
        /\ toks[j].line > toks[i].line
        /\ toks[j].start = 0
        /\ matchHeaderField(Lines[toks[j].line], 0) # NoMatch
        /\ ~toks[j].before /\ ~toks[j].after

(***************************************************************************)
(* C16: a letter with a colon after it is tagged Header by the generic     *)
(* header rule only at the start of a line while inHeader is true, and     *)
(* that step leaves inHeader true; a step that starts with inHeader false  *)
(* tags nothing but K: as Header.                                          *)
(***************************************************************************)
KField == <<"K", ":">>

C16_HeaderRuleOnlyInHeader ==
    \A i \in 1..Len(toks) :
        LET k == toks[i]
        IN  /\ k.rule = 2
                => /\ k.before /\ k.start = 0 /\ k.after
                   /\ k.style = "keyword"
                   /\ matchHeaderField(Lines[k.line], k.start) = k.end - k.start
            /\ (k.style = "keyword" /\ SpanText(k) # KField)
                => k.rule = 2 /\ k.before /\ k.start = 0
            /\ (k.style = "keyword" /\ ~k.before)
                => SpanText(k) = KField /\ k.rule = 3

\* both sides in one scan: a letter-colon tagged Header at the start of a
\* header line, and a letter-colon other than K: at the start of a line
\* after the header that is not tagged Header
C16_Witness ==
    \E i, j \in 1..Len(toks) :
        /\ toks[i].rule = 2 /\ SpanText(toks[i]) # KField
        /\ ~toks[j].before
        /\ toks[j].start = 0
        /\ matchHeaderField(Lines[toks[j].line], 0) # NoMatch
        /\ matchKField(Lines[toks[j].line], 0) = NoMatch
        /\ toks[j].style # "keyword"

(***************************************************************************)
(* C17: in a commit that changes both value and selectedRange the content  *)
(* effect runs before any other effect of the commit, so that when the     *)
(* selection effect runs after a replacement the widget holds the new      *)
(* text, and the range is applied exactly when it lies within the new      *)
(* text's length, whatever the length of the old text was.                 *)
(***************************************************************************)
C17_RangeValidatedAgainstNewText ==
    /\ (effects # <<>> /\ Head(effects) = "value")
          => last.op \notin {"effectDisabled", "effectSelection"}
    /\ (last.op = "effectSelection" /\ prior # <<>> /\ selectedRange # <<>>)
          => /\ doc = value
             /\ last.outcome \in {"applied", "rejected"}
             /\ last.outcome = "applied"
                    <=> InDocument(selectedRange, Len(value))
             /\ last.outcome = "applied" => sel = selectedRange

\* one update brought a longer text and a range that fits the new text but
\* not the old one, and the range was applied
C17_Witness ==
    /\ phase = "live"
    /\ last = [op |-> "effectSelection", outcome |-> "applied"]
    /\ prior # <<>>
    /\ ~InDocument(selectedRange, prior[1])
    /\ InDocument(selectedRange, Len(value))

(***************************************************************************)
(* C18: a content replacement made for the host is reported as a user's    *)
(* edit is: the step that replaces the text calls onChange once, with the  *)
(* whole new text, and does not call onSelectionChange, not even when the  *)
(* replacement moved the selection.                                        *)
(***************************************************************************)
C18_ReplacementEchoesOneChange ==
    last = [op |-> "effectValue", outcome |-> "replaced"]
        => /\ notes = <<[type |-> "change", text |-> value]>>
           /\ SelectionNotes(notes) = <<>>
           /\ doc = value

\* the host passed onSelectionChange and the replacement by a shorter text
\* moved the selection
C18_Witness ==
    /\ last = [op |-> "effectValue", outcome |-> "replaced"]
    /\ onSelectionChange
    /\ phase = "live"
    /\ prior # <<>>
    /\ sel # <<prior[2], prior[3]>>
    /\ prior[3] > Len(doc)

(***************************************************************************)
(* C19: isInternalChangeRef.current is false in every state, so the guard  *)
(* of the selection effect never skips a request: whenever the effect has  *)
(* run on a live view with a selectedRange that is not null, the range was *)
(* applied or was rejected by the validation.                              *)
(***************************************************************************)
C19_FlagNeverSkipsRequest ==
    /\ ~isInternalChangeRef
    /\ (last.op = "effectSelection" /\ viewRef /\ selectedRange # <<>>)
          => last.outcome \in {"applied", "rejected"}

\* a request was rejected by the validation while the focus callback of an
\* earlier, applied request was still pending: the effect ran again for a
\* range the host changed, and was not skipped
C19_Witness ==
    /\ phase = "live"
    /\ last = [op |-> "effectSelection", outcome |-> "rejected"]
    /\ selectedRange # <<>>
    /\ timers > 0
    /\ effects = <<>>

====
